---- MODULE Spec2Model ----
(***************************************************************************)
(* Model of the typing chapters of the repository: the helper types each   *)
(* chapter declares (ModelDefinition, TReducers, TReducer,                 *)
(* ExtractStateShape), the createModel signature of each chapter as the    *)
(* type checker applies it to a call, and the run-time behaviour of the    *)
(* two script files when they are loaded.                                  *)
(*                                                                         *)
(* A type is a union, written as the set of its members; `never` is the    *)
(* empty union.  Property types are unions of leaf type names.             *)
(***************************************************************************)
EXTENDS Integers, Sequences, FiniteSets, TLC

\* ------------------------------------------------------------------ bounds
\* Most reducers in the `reducers` object of a model definition.
MaxReducers == 2
\* Most members of a union type handed to ExtractStateShape.
MaxUnion == 2

\* ------------------------------------------------------------- type terms
\* The primitive types the examples use for `state` and for reducers:
\* `state: 42` is a number and `state: "string"` a string once the literal
\* is widened; every example reducer is (oldState: number, payload: any) => 21.
Prim == {"number", "string"}

\* The types found under a `state` key in the $ExpectType samples.
StateLeaf == Prim \cup {"StateKey1Object"}

Never == {}

\* One non-union type, as far as a `state` property is concerned:
\*   base      "stringLiteral" ("a string") or "object" ({...});
\*   state     the `state` property is "absent", "required" or "optional";
\*   stateType its declared type (a leaf), "none" when absent.
Member ==
    { [base |-> "stringLiteral", state |-> "absent", stateType |-> "none"],
      [base |-> "object", state |-> "absent", stateType |-> "none"] }
    \cup [base : {"object"}, state : {"required", "optional"}, stateType : StateLeaf]

\* The type arguments ExtractStateShape is applied to: non-empty unions.
TypeArgs == { T \in SUBSET Member : Cardinality(T) >= 1 /\ Cardinality(T) <= MaxUnion }

\* Assignability between unions of leaves: every member of the source is a
\* member of the target (distinct leaves are unrelated; never is assignable
\* to everything).
IsAssignable(S, T) == S \subseteq T

\* `m extends {state: infer TStateInferred}`: m must have a `state` property
\* and it must not be optional (an optional property is not assignable to a
\* required one).
ExtendsStateShape(m) == m.state = "required"

\* type ExtractStateShape<TModelDefinition> =
\*     TModelDefinition extends {state: infer TStateInferred} ? TStateInferred : never;
\* The checked type is a naked type parameter, so the conditional type
\* distributes over the members of a union.
ExtractStateShape(TModelDefinition) ==
    UNION { IF ExtendsStateShape(m) THEN {m.stateType} ELSE Never : m \in TModelDefinition }

\* Whether property access T.state type-checks: every member of the union
\* must declare the property.
HasStateProperty(T) == \A m \in T : m.state # "absent"

\* Faulty variant: the indexed access reads an optional-looking property.
IndexedAccessStateWithUndefined(T) ==
    UNION { IF m.state = "absent" THEN Never ELSE {m.stateType, "undefined"} : m \in T }

\* TModelDefinition['state']: the declared type of the property, with
\* undefined added when the property is optional.
IndexedAccessState(T) ==
    UNION { CASE m.state = "required" -> {m.stateType}
              [] m.state = "optional" -> {m.stateType, "undefined"}
              [] OTHER -> Never : m \in T }

\* -------------------------------------------------------- model definitions
\* type TReducer<TState> = (state: TState, payload: any) => TState, written
\* by the caller as (oldState: param, payload: any) => ret.
Reducer == [param : Prim, ret : Prim]

RECURSIVE SeqsUpTo(_, _)
SeqsUpTo(S, n) ==
    IF n = 0 THEN {<<>>}
    ELSE LET shorter == SeqsUpTo(S, n - 1)
         IN shorter \cup { Append(s, x) : s \in { t \in shorter : Len(t) = n - 1 }, x \in S }

\* The object literals handed to createModel: a `state` property and, when
\* hasReducers, a `reducers` object listing reducers in source order.
ModelDefinitionLiteral ==
    { [state |-> s, hasReducers |-> TRUE, reducers |-> rs] :
        s \in Prim, rs \in SeqsUpTo(Reducer, MaxReducers) }
    \cup { [state |-> s, hasReducers |-> FALSE, reducers |-> <<>>] : s \in Prim }

\* The type of an object-literal argument, as far as `state` goes: every
\* property of an object literal is required.
TypeOfArgument(md) == { [base |-> "object", state |-> "required", stateType |-> md.state] }

\* A written reducer against TReducer<TState>: the parameter is compared
\* contravariantly, the result covariantly.
IsReducerAssignable(r, TState) ==
    /\ IsAssignable(TState, {r.param})
    /\ IsAssignable({r.ret}, TState)

\* Diagnostic positions inside the argument.
StateLoc == <<"state", 0>>
ReducersLoc == <<"reducers", 0>>
ArgumentLoc == <<"argument", 0>>
ReducerLoc(i) == <<"reducer", i>>

BadReducers(md, TState) ==
    { i \in 1..Len(md.reducers) : ~IsReducerAssignable(md.reducers[i], TState) }

StateDiagnostic(md, TState) ==
    IF IsAssignable({md.state}, TState) THEN {} ELSE {StateLoc}

\* interface ModelDefinition<TState> { state: TState; reducers: TReducers<TState>; }
\* interface TReducers<TState> { [reducerName: string]: TReducer<TState>; }
\* The argument is compared property by property; each property that does
\* not fit is reported where it stands, and the `reducers` literal is
\* entered so that each reducer that does not fit is reported by name.  A
\* missing `reducers` is reported on the argument when nothing else was.
ModelDefinition(md, TState) ==
    LET elaborated == StateDiagnostic(md, TState)
                      \cup { ReducerLoc(i) : i \in BadReducers(md, TState) }
    IN IF elaborated = {} /\ ~md.hasReducers THEN {ArgumentLoc} ELSE elaborated

\* interface ModelDefinition<TState> { state: TState; reducers?: TReducers<TState>; }
\* With `reducers` optional its type is TReducers<TState> | undefined and the
\* literal is not entered: the whole `reducers` property is reported.
ModelDefinitionOptionalReducers(md, TState) ==
    StateDiagnostic(md, TState)
    \cup (IF BadReducers(md, TState) # {} THEN {ReducersLoc} ELSE {})

\* ------------------------------------------------------ inference of TState
\* Between the primitive types of the examples a type is a subtype of
\* another only when they are the same type.
IsSubtype(s, t) == s = t

\* The candidates for TState the argument offers: `state` and each reducer's
\* result stand in covariant positions, each reducer's `state` parameter in a
\* contravariant one.  Properties are visited in declaration order of
\* ModelDefinition: state first, then reducers.
CovariantCandidates(md) ==
    <<md.state>> \o [i \in 1..Len(md.reducers) |-> md.reducers[i].ret]

ContravariantCandidates(md) ==
    [i \in 1..Len(md.reducers) |-> md.reducers[i].param]

\* Left fold keeping the first candidate unless a later one is a supertype.
RECURSIVE CommonSupertype(_)
CommonSupertype(types) ==
    IF Len(types) = 1 THEN types[1]
    ELSE LET s == CommonSupertype(SubSeq(types, 1, Len(types) - 1))
             t == types[Len(types)]
         IN IF IsSubtype(s, t) THEN t ELSE s

\* Left fold keeping the first candidate unless a later one is a subtype.
RECURSIVE CommonSubtype(_)
CommonSubtype(types) ==
    IF Len(types) = 1 THEN types[1]
    ELSE LET s == CommonSubtype(SubSeq(types, 1, Len(types) - 1))
             t == types[Len(types)]
         IN IF IsSubtype(t, s) THEN t ELSE s

\* Faulty variant: the covariant candidates always win, so TState follows `state`.
InferTStateCovariantFirst(md) == {CommonSupertype(CovariantCandidates(md))}

\* createModel<TState>(modelDefinition: ModelDefinition<TState>) with TState
\* left to inference: with contravariant candidates present the covariant
\* inference is kept only when it is a subtype of the contravariant one;
\* otherwise the reducers' parameter type decides TState ("the `state`
\* property highlights as problematic; and not the specific reducer").
InferTState(md) ==
    LET covariant == CommonSupertype(CovariantCandidates(md))
    IN IF ContravariantCandidates(md) = <<>> THEN {covariant}
       ELSE LET contravariant == CommonSubtype(ContravariantCandidates(md))
            IN IF IsSubtype(covariant, contravariant) THEN {covariant}
               ELSE {contravariant}

\* ------------------------------------------------- createModel, per chapter
Inferred == "inferred"
TypeArgument == Prim \cup {Inferred}

\* NaiveStateReducers:
\*   function createModel<TState>(modelDefinition: ModelDefinition<TState>): void
\* called as createModel({...}) or createModel<string>({...}).
createModel_NaiveStateReducers(md, typeArgument) ==
    LET TState == IF typeArgument = Inferred THEN InferTState(md) ELSE {typeArgument}
    IN ModelDefinition(md, TState)

\* Faulty variant: TState is inferred from all its occurrences, as in chapter 1.
createModel_ExtractStateShapeAsNaive(md) == ModelDefinition(md, InferTState(md))

\* ExtractStateShapeFirstAndThenUseIt:
\*   function createModel<TModelDefinition extends
\*       ModelDefinition<ExtractStateShape<TModelDefinition>>>(modelDefinition: TModelDefinition): void
\* TModelDefinition is bound to the argument's own type, the state shape is
\* extracted from it, and the argument is held against the resulting
\* ModelDefinition.
createModel_ExtractStateShapeFirstAndThenUseIt(md) ==
    ModelDefinition(md, ExtractStateShape(TypeOfArgument(md)))

\* OptionalReducersProblem: the same signature over the ModelDefinition whose
\* `reducers` is optional.
createModel_OptionalReducersProblem(md) ==
    ModelDefinitionOptionalReducers(md, ExtractStateShape(TypeOfArgument(md)))

\* AlternativeWayOfExtractingStateShape:
\*   function createModel<TModelDefinition extends
\*       ModelDefinition<TModelDefinition['state']>>(modelDefinition: TModelDefinition): void
createModel_AlternativeWayOfExtractingStateShape(md) ==
    ModelDefinitionOptionalReducers(md, IndexedAccessState(TypeOfArgument(md)))

Chapters == {"NaiveStateReducers", "ExtractStateShapeFirstAndThenUseIt",
             "OptionalReducersProblem", "AlternativeWayOfExtractingStateShape"}

\* The diagnostics of the call createModel(md) placed in each chapter.
CheckCall(md, typeArgument) ==
    [ch \in Chapters |->
        CASE ch = "NaiveStateReducers" -> createModel_NaiveStateReducers(md, typeArgument)
          [] ch = "ExtractStateShapeFirstAndThenUseIt" ->
                createModel_ExtractStateShapeFirstAndThenUseIt(md)
          [] ch = "OptionalReducersProblem" -> createModel_OptionalReducersProblem(md)
          [] OTHER -> createModel_AlternativeWayOfExtractingStateShape(md)]

\* ------------------------------------------------------------ program text
\* What is left of each function once the type declarations are erased: the
\* function declarations and the calls of its body, in source order.  A call
\* names the function it resolves to and the line of the object literal it
\* passes (0 when it passes none).
Decl(name) == [kind |-> "FunctionDeclaration", name |-> name, literal |-> 0]
Call(name, literal) == [kind |-> "Call", name |-> name, literal |-> literal]

Files == {"part_000", "notSuccessful_OptionalReducers.ts"}

\* Faulty variant: the file ends by running one of its chapters.
Part000RunningAChapter ==
    << Decl("NaiveStateReducers"), Decl("ExtractStateShapeFirstAndThenUseIt"),
       Decl("OptionalReducersProblem"), Decl("AlternativeWayOfExtractingStateShape"),
       Decl("foobar"), Call("ExtractStateShapeFirstAndThenUseIt", 0) >>

\* Top level of src/unnamed/part_000.
Part000 ==
    << Decl("NaiveStateReducers"), Decl("ExtractStateShapeFirstAndThenUseIt"),
       Decl("OptionalReducersProblem"), Decl("AlternativeWayOfExtractingStateShape"),
       Decl("foobar") >>

\* Faulty variant: the file ends by calling the function it has just declared.
OptionalReducersFileCallingItself ==
    << Decl("OptionalReducersSolution"), Decl("OptionalReducersSolution_notWorking"),
       Call("OptionalReducersSolution_notWorking", 0) >>

\* Top level of src/types/notSuccessful_OptionalReducers.ts.
OptionalReducersFile ==
    << Decl("OptionalReducersSolution"), Decl("OptionalReducersSolution_notWorking") >>

NaiveStateReducers ==
    << Decl("NaiveStateReducers.createModel"), Decl("NaiveStateReducers.examples") >>

examples ==
    << Call("NaiveStateReducers.createModel", 74), Call("NaiveStateReducers.createModel", 80),
       Call("NaiveStateReducers.createModel", 90), Call("NaiveStateReducers.createModel", 102) >>

ExtractStateShapeFirstAndThenUseIt ==
    << Decl("ExtractStateShapeFirstAndThenUseIt.createModel"),
       Decl("ExtractStateShapeFirstAndThenUseIt.createModel2"),
       Call("ExtractStateShapeFirstAndThenUseIt.createModel", 198),
       Call("ExtractStateShapeFirstAndThenUseIt.createModel", 207) >>

OptionalReducersProblem ==
    << Decl("OptionalReducersProblem.createModel"),
       Call("OptionalReducersProblem.createModel", 243) >>

AlternativeWayOfExtractingStateShape ==
    << Decl("AlternativeWayOfExtractingStateShape.createModel"),
       Call("AlternativeWayOfExtractingStateShape.createModel", 274) >>

foobar ==
    << Decl("foobar.createModel"), Decl("foobar.effects"),
       Call("foobar.createModel", 297), Call("foobar.createModel", 308) >>

OptionalReducersSolution ==
    << Decl("OptionalReducersSolution.createModel"),
       Call("OptionalReducersSolution.createModel", 21) >>

OptionalReducersSolution_notWorking ==
    << Decl("OptionalReducersSolution_notWorking.createModel"),
       Call("OptionalReducersSolution_notWorking.createModel", 50) >>

\* The functions named createModel (and createModel2), one per chapter.
CreateModelFunctions ==
    { "NaiveStateReducers.createModel", "ExtractStateShapeFirstAndThenUseIt.createModel",
      "ExtractStateShapeFirstAndThenUseIt.createModel2", "OptionalReducersProblem.createModel",
      "AlternativeWayOfExtractingStateShape.createModel", "foobar.createModel",
      "OptionalReducersSolution.createModel", "OptionalReducersSolution_notWorking.createModel" }

\* function createModel<...>(modelDefinition: ...): void { }
createModel == << >>

\* The statements of a script or of a function, by name.
Code(unit) ==
    CASE unit = "part_000" -> Part000
      [] unit = "notSuccessful_OptionalReducers.ts" -> OptionalReducersFile
      [] unit = "NaiveStateReducers" -> NaiveStateReducers
      [] unit = "NaiveStateReducers.examples" -> examples
      [] unit = "ExtractStateShapeFirstAndThenUseIt" -> ExtractStateShapeFirstAndThenUseIt
      [] unit = "OptionalReducersProblem" -> OptionalReducersProblem
      [] unit = "AlternativeWayOfExtractingStateShape" -> AlternativeWayOfExtractingStateShape
      [] unit = "foobar" -> foobar
      [] unit = "OptionalReducersSolution" -> OptionalReducersSolution
      [] unit = "OptionalReducersSolution_notWorking" -> OptionalReducersSolution_notWorking
      [] unit \in CreateModelFunctions -> createModel
      [] OTHER -> << >>

\* Function declarations are hoisted: entering a script or a function binds
\* every function its body declares.
Hoisted(unit) ==
    { Code(unit)[i].name : i \in { j \in 1..Len(Code(unit)) : Code(unit)[j].kind = "FunctionDeclaration" } }

\* ------------------------------------------------------------------- state
VARIABLES
    query,        \* what the type checker resolved last: "none", "alias" or "call"
    typeArg,      \* alias: the T of ExtractStateShape<T>
    extracted,    \* alias: the type ExtractStateShape<T> resolved to
    argument,     \* call: the object literal passed to createModel
    typeArgument, \* call: the explicit TState of createModel<TState>, or Inferred
    diagnostics,  \* call: per chapter, where the call is reported
    started,      \* run time: the script files whose evaluation has begun
    stack,        \* run time: the frames being evaluated, innermost last
    bindings,     \* run time: the function names bound so far
    heap,         \* run time: the object literals evaluated so far, by line
    invoked       \* run time: the functions called so far

typingVars == <<query, typeArg, extracted, argument, typeArgument, diagnostics>>
runVars == <<started, stack, bindings, heap, invoked>>
vars == <<query, typeArg, extracted, argument, typeArgument, diagnostics,
          started, stack, bindings, heap, invoked>>

NoArgument == [state |-> "number", hasReducers |-> FALSE, reducers |-> <<>>]

Init ==
    /\ query = "none"
    /\ typeArg = Never
    /\ extracted = Never
    /\ argument = NoArgument
    /\ typeArgument = Inferred
    /\ diagnostics = [ch \in Chapters |-> {}]
    /\ started = {}
    /\ stack = <<>>
    /\ bindings = {}
    /\ heap = {}
    /\ invoked = {}

\* The type checker resolves a reference ExtractStateShape<T>, as for the
\* $ExpectType samples.  Type checking is done at compile time, before any
\* script is loaded.
ResolveAlias(T) ==
    /\ started = {}
    /\ query' = "alias"
    /\ typeArg' = T
    /\ extracted' = ExtractStateShape(T)
    /\ argument' = NoArgument
    /\ typeArgument' = Inferred
    /\ diagnostics' = [ch \in Chapters |-> {}]
    /\ UNCHANGED runVars

\* The type checker checks a call createModel(md) or createModel<X>(md)
\* against the createModel of every chapter.
CheckCreateModel(md, ta) ==
    /\ started = {}
    /\ query' = "call"
    /\ argument' = md
    /\ typeArgument' = ta
    /\ diagnostics' = CheckCall(md, ta)
    /\ typeArg' = Never
    /\ extracted' = Never
    /\ UNCHANGED runVars

\* A script file starts to be evaluated: its function declarations are
\* bound and its statements are queued.
Load(f) ==
    /\ f \notin started
    /\ stack = <<>>
    /\ started' = started \cup {f}
    /\ bindings' = bindings \cup Hoisted(f)
    /\ stack' = << [unit |-> f, pc |-> 1] >>
    /\ UNCHANGED <<heap, invoked>>
    /\ UNCHANGED typingVars

\* The innermost frame takes one step: it returns when its statements are
\* done, passes over a (hoisted) function declaration, or evaluates a call,
\* which evaluates the object literal passed and enters the callee.
Step ==
    /\ stack # <<>>
    /\ LET top == stack[Len(stack)]
           code == Code(top.unit)
           rest == SubSeq(stack, 1, Len(stack) - 1)
       IN IF top.pc > Len(code)
          THEN /\ stack' = rest
               /\ UNCHANGED <<bindings, heap, invoked>>
          ELSE LET stmt == code[top.pc]
                   next == [top EXCEPT !.pc = top.pc + 1]
               IN IF stmt.kind = "Call"
                  THEN /\ stack' = Append(Append(rest, next), [unit |-> stmt.name, pc |-> 1])
                       /\ bindings' = bindings \cup Hoisted(stmt.name)
                       /\ heap' = heap \cup ({stmt.literal} \ {0})
                       /\ invoked' = invoked \cup {stmt.name}
                  ELSE /\ stack' = Append(rest, next)
                       /\ UNCHANGED <<bindings, heap, invoked>>
    /\ UNCHANGED started
    /\ UNCHANGED typingVars

Next ==
    \/ \E T \in TypeArgs : ResolveAlias(T)
    \/ \E md \in ModelDefinitionLiteral, ta \in TypeArgument : CheckCreateModel(md, ta)
    \/ \E f \in Files : Load(f)
    \/ Step

Spec == Init /\ [][Next]_vars

\* ------------------------------------------------------------------ claims
\* A reducer that takes and returns the type t.
UsesState(r, t) == r.param = t /\ r.ret = t

TheMember(T) == CHOOSE m \in T : TRUE

\* C1, as stated: ExtractStateShape<T> is the type of T's `state` property
\* whenever T has a `state` property, and never for every T that has none.
C1_AsStated ==
    query = "alias" =>
        IF HasStateProperty(typeArg)
        THEN extracted = IndexedAccessState(typeArg)
        ELSE extracted = Never

\* What ExtractStateShape<T> yields instead: for a T that is not a union, the
\* type of T's `state` property when that property is required, and never
\* when T has no `state` property or only an optional one; for a union,
\* exactly the state types of the members whose `state` is required.
ExtractStateShapeYields ==
    query = "alias" =>
        /\ Cardinality(typeArg) = 1 =>
              IF TheMember(typeArg).state = "required"
              THEN extracted = {TheMember(typeArg).stateType}
              ELSE extracted = Never
        /\ \A leaf \in StateLeaf \cup {"undefined", "none"} :
              leaf \in extracted <=>
                  \E m \in typeArg : m.state = "required" /\ m.stateType = leaf

\* The $ExpectType samples: ExtractStateShape<{state: {stateKey1: string}}>
\* was resolved to { stateKey1: string }.
ExpectTypeSampleReached ==
    /\ query = "alias"
    /\ typeArg = { [base |-> "object", state |-> "required", stateType |-> "StateKey1Object"] }
    /\ extracted = {"StateKey1Object"}

C3_ShapesNeverConstructed ==
    /\ heap = {}
    /\ \A f \in CreateModelFunctions : Code(f) = <<>> /\ f \notin invoked
    /\ \A i \in 1..Len(stack) :
          /\ stack[i].unit \notin CreateModelFunctions
          /\ stack[i].pc <= Len(Code(stack[i].unit)) =>
                Code(stack[i].unit)[stack[i].pc].kind = "FunctionDeclaration"

\* C3 witness: part_000 is being evaluated, has passed the declarations of
\* the chapters that call createModel, and the heap is still empty.
C3_Witness ==
    /\ stack # <<>>
    /\ stack[1].unit = "part_000"
    /\ stack[1].pc > Len(Part000)
    /\ "ExtractStateShapeFirstAndThenUseIt" \in bindings
    /\ heap = {}

\* C4: in ExtractStateShapeFirstAndThenUseIt a definition with `state` and
\* `reducers` is accepted exactly when every reducer takes and returns the
\* type of `state`; otherwise each reducer that does not is reported, and
\* nothing else is: never `state`.
C4_ErrorOnReducer ==
    (query = "call" /\ argument.hasReducers) =>
        LET d == diagnostics["ExtractStateShapeFirstAndThenUseIt"]
            rs == argument.reducers
        IN /\ d = {} <=> \A i \in 1..Len(rs) : UsesState(rs[i], argument.state)
           /\ StateLoc \notin d
           /\ d = { ReducerLoc(i) : i \in { j \in 1..Len(rs) : ~UsesState(rs[j], argument.state) } }

\* C4 witness: createModel({state: "string", reducers: {setValueTo21:
\* (oldState: number, payload: any) => 21}}) is reported on setValueTo21.
C4_Witness ==
    /\ query = "call"
    /\ argument = [state |-> "string", hasReducers |-> TRUE,
                   reducers |-> << [param |-> "number", ret |-> "number"] >>]
    /\ diagnostics["ExtractStateShapeFirstAndThenUseIt"] = {ReducerLoc(1)}

\* What C5 says of calls that are accepted and of calls with an explicit
\* TState: an empty `reducers` and reducers that all use the type of `state`
\* are accepted; with TState given as the type of `state`, each reducer that
\* does not use it is reported and `state` is not.
C5_AcceptedAndExplicit ==
    LET d == diagnostics["NaiveStateReducers"]
        rs == argument.reducers
    IN /\ (typeArgument = Inferred /\ argument.hasReducers
             /\ \A i \in 1..Len(rs) : UsesState(rs[i], argument.state)) => d = {}
       /\ (typeArgument = argument.state /\ argument.hasReducers) =>
             d = { ReducerLoc(i) : i \in { j \in 1..Len(rs) : ~UsesState(rs[j], argument.state) } }

C6_SameBehaviour ==
    query = "call" =>
        diagnostics["AlternativeWayOfExtractingStateShape"]
            = diagnostics["OptionalReducersProblem"]

\* C6 witness: the call with state "string" and a number reducer is
\* reported on `reducers` by both.
C6_Witness ==
    /\ query = "call"
    /\ argument.state = "string"
    /\ argument.reducers = << [param |-> "number", ret |-> "number"] >>
    /\ diagnostics["AlternativeWayOfExtractingStateShape"] = {ReducersLoc}
    /\ diagnostics["OptionalReducersProblem"] = {ReducersLoc}

====
